---------------------------- MODULE Spec2Model ----------------------------
(***************************************************************************)
(* State-machine model of the two driver scripts of the repository:        *)
(*   examples/swbd/training/train.py            (training driver, main)    *)
(*   examples/csj/s5/exp/visualization/plot_nested_attention_weights.py    *)
(*                                              (visualization, plot)      *)
(*                                                                         *)
(* Numbers.  Error rates are floats in the source; here a metric m stands  *)
(* for the error rate m / MetricScale, so the initial best value 1 of      *)
(* train.py:144 is the integer One.  The learning rate is the exact        *)
(* rational <<numerator, denominator>>.                                    *)
(***************************************************************************)
EXTENDS Integers, Sequences, FiniteSets, TLC

(* ------------------------------ bounds --------------------------------- *)
\* epochs the train dataset yields at most (params['num_epoch'])
MaxEpoch == 3
\* a dev metric m stands for the error rate m / MetricScale
MetricScale == 2
\* largest patience (early stopping and learning-rate decay)
MaxPatience == 2
\* input frames of an utterance, at most
MaxFrames == 2
\* --max_decode_len of the visualization (--max_decode_len_sub is one more)
MaxDecodeLen == 2

(* --------------------------- value domains ----------------------------- *)
\* the value 1 of `ler_dev_best = 1`, in metric units
One == MetricScale

\* error rates a dev evaluation can return (an error rate may exceed 1)
Metrics == 0..(MetricScale + 1)

\* mini-batches per epoch of the train dataset
BatchCounts == {1, 2}

\* values of params['print_step']
PrintSteps == {1, 2}

\* per-step training losses returned by train_step
Losses == {1, 2}

\* label types of the corpus; the first has 'char' as a substring
LabelTypes == {"character", "word"}

\* decay factors configured (exact rationals below 1)
DecayRates == {<<1, 2>>}

\* the object identity of the live training model; a deep copy gets a
\* fresh identity 1, 2, ...
LiveModel == 0

(* ------------------------------ rationals ------------------------------ *)
RatEq(a, b) == a[1] * b[2] = b[1] * a[2]

RatLt(a, b) == a[1] * b[2] < b[1] * a[2]

RatMul(a, b) == <<a[1] * b[1], a[2] * b[2]>>

(* ------------------------------- state --------------------------------- *)
VARIABLES
    params,                 \* the configuration, read-only after load
    pc,                     \* position of main() / plot()
    train_data,             \* train dataset iterator: [epoch, offset]
    step,                   \* enumerate() index of the current iteration
    is_new_epoch,           \* epoch-boundary flag of the current iteration
    model,                  \* live model: [mode, updates, weight_noise_injection]
    best_model,             \* identity of the object best_model refers to
    snapshot,               \* the deep copy best_model refers to, if any
    num_copies,             \* deep copies made so far
    ler_dev_best,
    not_improved_epoch,
    metric_dev_epoch,
    learning_rate,
    lr_controller,          \* Controller: [best_value, not_improved_epoch]
    loss_val_train,
    loss_val_train_tmp,     \* loss of the last optimization step
    csv_loss_train,         \* last entry appended and number of entries
    dev_batches,            \* dev_data.next() calls of the print branch
    files,                  \* what main() has persisted
    test_eval,              \* the final test-set evaluation, once run
    hist,                   \* history of the run (auxiliary)
    viz_pc,                 \* position of plot()
    viz_args,               \* arguments of plot(): model, dataset, lengths
    viz_data,               \* test dataset iterator: batches yielded
    viz_batch,              \* current batch and its attention weights
    viz_b,                  \* utterance index b of the inner loop
    rendered,               \* what the last utterance passed to rendering
    viz_out                 \* inference calls, images written, error raised

trainVars == <<params, pc, train_data, step, is_new_epoch, model, best_model,
          snapshot, num_copies, ler_dev_best, not_improved_epoch,
          metric_dev_epoch, learning_rate, lr_controller, loss_val_train,
          loss_val_train_tmp, csv_loss_train, dev_batches, files, test_eval,
          hist>>

plotVars == <<viz_pc, viz_args, viz_data, viz_batch, viz_b, rendered, viz_out>>

vars == <<trainVars, plotVars>>

None == "none"


(* ------------------------------ helpers -------------------------------- *)
\* Python's `sub in s` on strings, strings being sequences of characters
Contains(sub, s) ==
    \E i \in 1..(Len(s) - Len(sub) + 1) : SubSeq(s, i, i + Len(sub) - 1) = sub

Chars(label) ==
    IF label = "character"
    THEN <<"c", "h", "a", "r", "a", "c", "t", "e", "r">>
    ELSE <<"w", "o", "r", "d">>

\* `'char' in params['label_type']`
HasChar(label) == Contains(<<"c", "h", "a", "r">>, Chars(label))

\* the evaluator the label type selects: do_eval_cer or do_eval_wer
Evaluator(label) == IF HasChar(label) THEN "cer" ELSE "wer"

SetMin(S) == CHOOSE x \in S : \A y \in S : x <= y

RECURSIVE SeqSum(_)
SeqSum(s) == IF s = <<>> THEN 0 ELSE Head(s) + SeqSum(Tail(s))

\* the last n elements of s (all of s when it is shorter)
LastN(s, n) == IF Len(s) <= n THEN s ELSE SubSeq(s, Len(s) - n + 1, Len(s))

(* ------------------------- train dataset iterator ---------------------- *)
\* The Dataset class: a batch iterator that flags the last batch of an
\* epoch, counts finished epochs in `epoch` and stops after max_epoch.
DatasetExhausted(d) == d.epoch >= d.max_epoch

DatasetIsNewEpoch(d) == d.offset + 1 = d.num_batches

DatasetNext(d) ==
    IF DatasetIsNewEpoch(d)
    THEN [d EXCEPT !.epoch = d.epoch + 1, !.offset = 0]
    ELSE [d EXCEPT !.offset = d.offset + 1]

(* ----------------------- learning-rate controller ---------------------- *)
\* Controller(learning_rate_init, decay_start_epoch, decay_rate,
\*            decay_patient_epoch, lower_better=True)
ControllerInit == [best_value |-> One, not_improved_epoch |-> 0]

\* Controller.decay_lr(optimizer, learning_rate, epoch, value): the new
\* controller state and the learning rate returned.
decay_lr(c, lr, epoch, value) ==
    IF epoch < params.decay_start_epoch
    THEN [ctrl |-> IF value < c.best_value
                   THEN [c EXCEPT !.best_value = value] ELSE c,
          lr   |-> lr]
    ELSE IF value < c.best_value
    THEN [ctrl |-> [best_value |-> value, not_improved_epoch |-> 0],
          lr   |-> lr]
    ELSE IF c.not_improved_epoch + 1 < params.decay_patient_epoch
    THEN [ctrl |-> [c EXCEPT !.not_improved_epoch = c.not_improved_epoch + 1],
          lr   |-> lr]
    ELSE [ctrl |-> [c EXCEPT !.not_improved_epoch = 0],
          lr   |-> RatMul(lr, params.decay_rate)]

(* ------------------------------ Init ----------------------------------- *)
\* variant: the switch to evaluation mode does nothing
ModelEvalNoop(m) == m

\* model.eval(): ***Change to evaluation mode***
ModelEval(m) == [m EXCEPT !.mode = "eval"]

\* model.train(): ***Change to training mode***
ModelTrain(m) == [m EXCEPT !.mode = "train"]

\* best_model has not been deep-copied
NoSnapshot == [mode |-> None, updates |-> 0, weight_noise_injection |-> FALSE]

\* no test-set evaluation has run
NoTestEval == [done |-> FALSE, model_id |-> LiveModel, evaluator |-> None,
               mode |-> None, updates |-> 0, datasets |-> <<>>]

\* the configurations whose early-stop patience is within reach of a run of
\* MaxEpoch epochs
StopConfigs ==
    [ print_step                 : PrintSteps,
      eval_start_epoch           : {1, 2, MaxEpoch + 1},
      not_improved_patient_epoch : 1..MaxPatience,
      decay_start_epoch          : {1, MaxEpoch},
      decay_patient_epoch        : 1..MaxPatience,
      decay_rate                 : DecayRates,
      learning_rate              : {<<1, 1>>},
      label_type                 : LabelTypes,
      weight_noise_std           : {1} ]

\* configurations that never stop early within MaxEpoch epochs: decay_lr is
\* called after every evaluation of the run, so the controller sees runs of
\* non-improving values longer than its patience
PatientConfigs ==
    [ print_step                 : {1},
      eval_start_epoch           : {1},
      not_improved_patient_epoch : {MaxEpoch + 1},
      decay_start_epoch          : {1, 2},
      decay_patient_epoch        : 1..MaxPatience,
      decay_rate                 : DecayRates,
      learning_rate              : {<<1, 1>>},
      label_type                 : {"word"},
      weight_noise_std           : {0, 1} ]

\* params = load_config(...): the configurations of the runs
Configs == StopConfigs \cup PatientConfigs

TrainInit ==
    /\ params \in Configs
    /\ pc = "loop"
    /\ train_data \in [epoch : {0}, offset : {0}, max_epoch : {MaxEpoch},
                       num_batches : BatchCounts]
    /\ step = -1
    /\ is_new_epoch = FALSE
    /\ model = [mode |-> "train", updates |-> 0,
                weight_noise_injection |-> FALSE]
    /\ best_model = LiveModel
    /\ snapshot = NoSnapshot
    /\ num_copies = 0
    /\ ler_dev_best = One
    /\ not_improved_epoch = 0
    /\ metric_dev_epoch = -1          \* not bound yet
    /\ learning_rate = params.learning_rate
    /\ lr_controller = ControllerInit
    /\ loss_val_train = 0
    /\ loss_val_train_tmp = 0
    /\ csv_loss_train = [last |-> <<>>, len |-> 0]
    /\ dev_batches = 0
    /\ files = [plots |-> 0, checkpoints |-> <<>>, complete |-> FALSE]
    /\ test_eval = NoTestEval
    /\ hist = [dev_seen |-> {}, boundaries |-> 0, dev_evals |-> <<>>,
               recent |-> <<>>, lr_calls |-> <<>>, exit |-> None,
               dev_loss_mode |-> None]

(* ----------------------------- training loop --------------------------- *)
\* for step, (batch, is_new_epoch) in enumerate(train_data): train_step,
\* accumulate the loss, switch weight noise on
TrainStep ==
    /\ pc = "loop"
    /\ ~DatasetExhausted(train_data)
    /\ \E loss \in Losses :
        /\ loss_val_train_tmp' = loss
        /\ loss_val_train' = loss_val_train + loss
        /\ hist' = [hist EXCEPT
                      !.recent = LastN(Append(@, loss), params.print_step),
                      !.boundaries = IF DatasetIsNewEpoch(train_data)
                                     THEN @ + 1 ELSE @]
    /\ step' = step + 1
    /\ is_new_epoch' = DatasetIsNewEpoch(train_data)
    /\ train_data' = DatasetNext(train_data)
    /\ model' = [model EXCEPT
                   !.updates = @ + 1,
                   !.weight_noise_injection =
                       IF /\ params.weight_noise_std > 0
                          /\ RatLt(learning_rate, params.learning_rate)
                       THEN TRUE ELSE @]
    /\ pc' = "print"
    /\ UNCHANGED plotVars
    /\ UNCHANGED <<params, best_model, snapshot, num_copies, ler_dev_best,
                   not_improved_epoch, metric_dev_epoch, learning_rate,
                   lr_controller, csv_loss_train, dev_batches, files,
                   test_eval>>

\* the train dataset raises StopIteration: the for loop ends
LoopExhausted ==
    /\ pc = "loop"
    /\ DatasetExhausted(train_data)
    /\ pc' = "test"
    /\ hist' = [hist EXCEPT !.exit = "exhausted"]
    /\ UNCHANGED plotVars
    /\ UNCHANGED <<params, train_data, step, is_new_epoch, model, best_model,
                   snapshot, num_copies, ler_dev_best, not_improved_epoch,
                   metric_dev_epoch, learning_rate, lr_controller,
                   loss_val_train, loss_val_train_tmp, csv_loss_train,
                   dev_batches, files, test_eval>>

\* variant: the accumulator is not reset after logging
PrintStepNoReset ==
    /\ pc = "print"
    /\ (step + 1) % params.print_step = 0
    /\ dev_batches' = dev_batches + 1
    /\ LET evaluating == ModelEval(model) IN
         /\ hist' = [hist EXCEPT !.dev_loss_mode = evaluating.mode]
         /\ model' = ModelTrain(evaluating)
    /\ csv_loss_train' = [last |-> <<loss_val_train, params.print_step>>,
                          len  |-> csv_loss_train.len + 1]
    /\ pc' = "epoch"
    /\ UNCHANGED plotVars
    /\ UNCHANGED <<params, train_data, step, is_new_epoch, best_model,
                   snapshot, num_copies, ler_dev_best, not_improved_epoch,
                   metric_dev_epoch, learning_rate, lr_controller,
                   loss_val_train, loss_val_train_tmp, files, test_eval>>

\* if (step + 1) % params['print_step'] == 0: one dev batch, log, reset
PrintStep ==
    /\ pc = "print"
    /\ (step + 1) % params.print_step = 0
    /\ dev_batches' = dev_batches + 1
    \* model.eval(); loss_dev = model(...); model.train()
    /\ LET evaluating == ModelEval(model) IN
         /\ hist' = [hist EXCEPT !.dev_loss_mode = evaluating.mode]
         /\ model' = ModelTrain(evaluating)
    \* loss_val_train /= print_step; csv_loss_train.append(loss_val_train)
    /\ csv_loss_train' = [last |-> <<loss_val_train, params.print_step>>,
                          len  |-> csv_loss_train.len + 1]
    /\ loss_val_train' = 0
    /\ pc' = "epoch"
    /\ UNCHANGED plotVars
    /\ UNCHANGED <<params, train_data, step, is_new_epoch, best_model,
                   snapshot, num_copies, ler_dev_best, not_improved_epoch,
                   metric_dev_epoch, learning_rate, lr_controller,
                   loss_val_train_tmp, files, test_eval>>

NoPrintStep ==
    /\ pc = "print"
    /\ (step + 1) % params.print_step # 0
    /\ pc' = "epoch"
    /\ UNCHANGED plotVars
    /\ UNCHANGED <<params, train_data, step, is_new_epoch, model, best_model,
                   snapshot, num_copies, ler_dev_best, not_improved_epoch,
                   metric_dev_epoch, learning_rate, lr_controller,
                   loss_val_train, loss_val_train_tmp, csv_loss_train,
                   dev_batches, files, test_eval, hist>>

\* if is_new_epoch: plot_loss(...)
PlotLoss ==
    /\ pc = "epoch"
    /\ is_new_epoch
    /\ files' = [files EXCEPT !.plots = @ + 1]
    /\ pc' = "checkpoint"
    /\ UNCHANGED plotVars
    /\ UNCHANGED <<params, train_data, step, is_new_epoch, model, best_model,
                   snapshot, num_copies, ler_dev_best, not_improved_epoch,
                   metric_dev_epoch, learning_rate, lr_controller,
                   loss_val_train, loss_val_train_tmp, csv_loss_train,
                   dev_batches, test_eval, hist>>

\* not an epoch boundary: next iteration
NotNewEpoch ==
    /\ pc = "epoch"
    /\ ~is_new_epoch
    /\ pc' = "loop"
    /\ UNCHANGED plotVars
    /\ UNCHANGED <<params, train_data, step, is_new_epoch, model, best_model,
                   snapshot, num_copies, ler_dev_best, not_improved_epoch,
                   metric_dev_epoch, learning_rate, lr_controller,
                   loss_val_train, loss_val_train_tmp, csv_loss_train,
                   dev_batches, files, test_eval, hist>>

\* variant: the checkpoint is saved only when the dev evaluation is due
SaveCheckpointIfEval ==
    /\ pc = "checkpoint"
    /\ files' = [files EXCEPT !.checkpoints =
                    IF train_data.epoch >= params.eval_start_epoch
                    THEN Append(@, train_data.epoch) ELSE @]
    /\ pc' = "eval"
    /\ UNCHANGED plotVars
    /\ UNCHANGED <<params, train_data, step, is_new_epoch, model, best_model,
                   snapshot, num_copies, ler_dev_best, not_improved_epoch,
                   metric_dev_epoch, learning_rate, lr_controller,
                   loss_val_train, loss_val_train_tmp, csv_loss_train,
                   dev_batches, test_eval, hist>>

\* model.save_checkpoint(model.save_path, epoch=train_data.epoch)
SaveCheckpoint ==
    /\ pc = "checkpoint"
    /\ files' = [files EXCEPT !.checkpoints = Append(@, train_data.epoch)]
    /\ pc' = "eval"
    /\ UNCHANGED plotVars
    /\ UNCHANGED <<params, train_data, step, is_new_epoch, model, best_model,
                   snapshot, num_copies, ler_dev_best, not_improved_epoch,
                   metric_dev_epoch, learning_rate, lr_controller,
                   loss_val_train, loss_val_train_tmp, csv_loss_train,
                   dev_batches, test_eval, hist>>

\* variant: the evaluation starts one epoch late
EvalDueStrict == train_data.epoch > params.eval_start_epoch

\* `if train_data.epoch >= params['eval_start_epoch']`
EvalDue == train_data.epoch >= params.eval_start_epoch

\* variant: an equal metric counts as an improvement
ImprovedOrEqual(m, best) == m <= best

\* `if metric_dev_epoch < ler_dev_best`
Improved(m, best) == m < best

\* variant: `best_model = model`, no copy
AliasBestModel(copies) == LiveModel

\* `best_model = copy.deepcopy(model)`: the identity of the fresh object
NewBestModel(copies) == copies + 1

\* the dev evaluation and the update of the best model
DevEval ==
    /\ pc = "eval"
    /\ EvalDue
    \* model.eval()
    /\ model' = ModelEval(model)
    /\ \E m \in Metrics :
        /\ metric_dev_epoch' = m
        /\ hist' = [hist EXCEPT
                      !.dev_seen = @ \cup {m},
                      !.dev_evals = Append(@,
                          [epoch |-> train_data.epoch,
                           evaluator |-> Evaluator(params.label_type),
                           mode |-> model'.mode,
                           improved |-> m < SetMin({One} \cup hist.dev_seen)])]
        /\ IF Improved(m, ler_dev_best)
           THEN /\ ler_dev_best' = m
                /\ not_improved_epoch' = 0
                \* best_model = copy.deepcopy(model)
                /\ num_copies' = num_copies + 1
                /\ best_model' = NewBestModel(num_copies)
                /\ snapshot' = model'
           ELSE /\ not_improved_epoch' = not_improved_epoch + 1
                /\ UNCHANGED <<ler_dev_best, num_copies, best_model, snapshot>>
    /\ pc' = "early_stop"
    /\ UNCHANGED plotVars
    /\ UNCHANGED <<params, train_data, step, is_new_epoch, learning_rate,
                   lr_controller, loss_val_train, loss_val_train_tmp,
                   csv_loss_train, dev_batches, files, test_eval>>

\* before eval_start_epoch: only the timers are restarted
SkipEval ==
    /\ pc = "eval"
    /\ ~EvalDue
    /\ pc' = "loop"
    /\ UNCHANGED plotVars
    /\ UNCHANGED <<params, train_data, step, is_new_epoch, model, best_model,
                   snapshot, num_copies, ler_dev_best, not_improved_epoch,
                   metric_dev_epoch, learning_rate, lr_controller,
                   loss_val_train, loss_val_train_tmp, csv_loss_train,
                   dev_batches, files, test_eval, hist>>

\* variant: stop one evaluation late
EarlyStopDueLate == not_improved_epoch > params.not_improved_patient_epoch

\* `if not_improved_epoch == params['not_improved_patient_epoch']`
EarlyStopDue == not_improved_epoch = params.not_improved_patient_epoch

\* variant: early stopping ends the run without the test-set evaluation
EarlyStopSkipTest ==
    /\ pc = "early_stop"
    /\ EarlyStopDue
    /\ pc' = "complete"
    /\ hist' = [hist EXCEPT !.exit = "early_stop"]
    /\ UNCHANGED plotVars
    /\ UNCHANGED <<params, train_data, step, is_new_epoch, model, best_model,
                   snapshot, num_copies, ler_dev_best, not_improved_epoch,
                   metric_dev_epoch, learning_rate, lr_controller,
                   loss_val_train, loss_val_train_tmp, csv_loss_train,
                   dev_batches, files, test_eval>>

\* Early stopping: break
EarlyStop ==
    /\ pc = "early_stop"
    /\ EarlyStopDue
    /\ pc' = "test"
    /\ hist' = [hist EXCEPT !.exit = "early_stop"]
    /\ UNCHANGED plotVars
    /\ UNCHANGED <<params, train_data, step, is_new_epoch, model, best_model,
                   snapshot, num_copies, ler_dev_best, not_improved_epoch,
                   metric_dev_epoch, learning_rate, lr_controller,
                   loss_val_train, loss_val_train_tmp, csv_loss_train,
                   dev_batches, files, test_eval>>

\* variant: the epoch passed is one ahead of train_data.epoch
DecayLrCallNextEpoch ==
    decay_lr(lr_controller, learning_rate, train_data.epoch + 1,
             metric_dev_epoch)

\* variant: the configured learning rate is passed, not the current one
DecayLrCallInitLr ==
    decay_lr(lr_controller, params.learning_rate, train_data.epoch,
             metric_dev_epoch)

\* lr_controller.decay_lr(optimizer=optimizer, learning_rate=learning_rate,
\*                        epoch=train_data.epoch, value=metric_dev_epoch)
DecayLrCall ==
    decay_lr(lr_controller, learning_rate, train_data.epoch, metric_dev_epoch)

\* Update learning rate, back to training mode
UpdateLearningRate ==
    /\ pc = "early_stop"
    /\ ~EarlyStopDue
    /\ LET r == DecayLrCall
       IN  /\ lr_controller' = r.ctrl
           /\ learning_rate' = r.lr
           /\ hist' = [hist EXCEPT !.lr_calls = Append(@,
                         [epoch |-> train_data.epoch,
                          decayed |-> ~RatEq(r.lr, learning_rate)])]
    /\ model' = ModelTrain(model)
    /\ pc' = "loop"
    /\ UNCHANGED plotVars
    /\ UNCHANGED <<params, train_data, step, is_new_epoch, best_model,
                   snapshot, num_copies, ler_dev_best, not_improved_epoch,
                   metric_dev_epoch, loss_val_train, loss_val_train_tmp,
                   csv_loss_train, dev_batches, files, test_eval>>

\* the object best_model refers to
BestModelObject == IF best_model = LiveModel THEN model ELSE snapshot

\* model.eval(); evaluate best_model on eval2000_swbd and eval2000_ch
TestEval ==
    /\ pc = "test"
    /\ model' = ModelEval(model)
    /\ test_eval' = [done      |-> TRUE,
                     model_id  |-> best_model,
                     evaluator |-> Evaluator(params.label_type),
                     mode      |-> IF best_model = LiveModel
                                   THEN model'.mode ELSE snapshot.mode,
                     updates   |-> BestModelObject.updates,
                     datasets  |-> <<"eval2000_swbd", "eval2000_ch">>]
    /\ pc' = "complete"
    /\ UNCHANGED plotVars
    /\ UNCHANGED <<params, train_data, step, is_new_epoch, best_model,
                   snapshot, num_copies, ler_dev_best, not_improved_epoch,
                   metric_dev_epoch, learning_rate, lr_controller,
                   loss_val_train, loss_val_train_tmp, csv_loss_train,
                   dev_batches, files, hist>>

\* Training was finished correctly: complete.txt
WriteComplete ==
    /\ pc = "complete"
    /\ files' = [files EXCEPT !.complete = TRUE]
    /\ pc' = "done"
    /\ UNCHANGED plotVars
    /\ UNCHANGED <<params, train_data, step, is_new_epoch, model, best_model,
                   snapshot, num_copies, ler_dev_best, not_improved_epoch,
                   metric_dev_epoch, learning_rate, lr_controller,
                   loss_val_train, loss_val_train_tmp, csv_loss_train,
                   dev_batches, test_eval, hist>>

\* the visualization script is not running
PlotIdle ==
    /\ viz_pc = "idle"
    /\ viz_args = None
    /\ viz_data = None
    /\ viz_batch = None
    /\ viz_b = 0
    /\ rendered = None
    /\ viz_out = None

Init == TrainInit /\ PlotIdle

Next ==
    \/ TrainStep
    \/ LoopExhausted
    \/ PrintStep
    \/ NoPrintStep
    \/ PlotLoss
    \/ NotNewEpoch
    \/ SaveCheckpoint
    \/ DevEval
    \/ SkipEval
    \/ EarlyStop
    \/ UpdateLearningRate
    \/ TestEval
    \/ WriteComplete

Spec == Init /\ [][Next]_vars

\* main() is one sequential process: it keeps running while a statement
\* remains to be executed
FairSpec == Spec /\ WF_vars(Next)

(* ------------------------- visualization: plot() ----------------------- *)
ModelTypes == {"nested_attention", "attention"}

EvalBatchSizes == {1, 2}

\* batches the test dataset yields up to and including the epoch boundary
VizBatchCounts == {1, 2}

\* the largest element of a sequence of naturals (0 when empty)
RECURSIVE SeqMax(_)
SeqMax(s) ==
    IF s = <<>> THEN 0
    ELSE LET m == SeqMax(Tail(s)) IN IF Head(s) > m THEN Head(s) ELSE m

\* model.attention_weights(xs, x_lens, max_decode_len, max_decode_len_sub):
\* the decoded hypotheses (by their lengths) and the shapes of
\*   aw             [B, T_out, T_in]       word to acoustic
\*   aw_sub         [B, T_out_sub, T_in]   character to acoustic
\*   aw_dec_out_sub [B, T_out, T_out_sub]  word to character
\* The output axes cover every decoding step (the longest hypothesis of the
\* batch, or max_decode_len when decoding is not cut), the input axis the
\* longest input of the batch.
attention_weights(x_lens, hyps, hyps_sub, full) ==
    LET t_out     == IF full THEN viz_args.max_decode_len ELSE SeqMax(hyps)
        t_out_sub == IF full THEN viz_args.max_decode_len_sub
                     ELSE SeqMax(hyps_sub)
        t_in      == SeqMax(x_lens)
    IN  [x_lens         |-> x_lens,
         best_hyps      |-> hyps,
         best_hyps_sub  |-> hyps_sub,
         aw             |-> <<t_out, t_in>>,
         aw_sub         |-> <<t_out_sub, t_in>>,
         aw_dec_out_sub |-> <<t_out, t_out_sub>>,
         gate_weights   |-> IF viz_args.has_gate THEN <<t_out>> ELSE <<>>]

\* the batches of B utterances with their inference results
BatchesOfSize(B) ==
    { attention_weights(xl, h, hs, full) :
        xl \in [1..B -> 1..MaxFrames],
        h \in [1..B -> 0..viz_args.max_decode_len],
        hs \in [1..B -> 0..viz_args.max_decode_len_sub],
        full \in BOOLEAN }

\* idx2word(best_hyps[b]), idx2char(best_hyps_sub[b]) with return_list=True:
\* one token per index (lists are modelled by their lengths)
idx2word(hyp_len) == hyp_len

idx2char(hyp_len) == hyp_len

\* save_path=None, the default of plot() and of
\* plot_word2char_attention_weights(); a path is the sequence of its parts
NoPath == <<>>

\* the save paths plot() is called with: None, or the directory att_weights
SavePaths == {NoPath, <<"att_weights">>}

\* mkdir_join(save_path, speaker, name): None for None, else the joined path
mkdir_join(path, speaker, name) ==
    IF path = NoPath THEN NoPath ELSE path \o <<speaker, name>>

\* plot_word2char_attention_weights(..., save_path): the heatmap is always
\* drawn, and saved only `if save_path is not None`
plot_word2char_attention_weights(save_path) ==
    [drawn |-> 1, written |-> IF save_path # NoPath THEN 1 ELSE 0]

\* variant: the axis is not cut
SliceAll(dim, n) == dim

\* numpy's a[:n] on an axis of length dim, n >= 0
SliceLen(dim, n) == IF n < dim THEN n ELSE dim

\* what the loop body passes to rendering for utterance b (1-based here)
RenderUtterance(batch, b) ==
    LET word_list == idx2word(batch.best_hyps[b])
        char_list == idx2char(batch.best_hyps_sub[b])
    IN  [aw             |-> <<SliceLen(batch.aw[1], word_list),
                              SliceLen(batch.aw[2], batch.x_lens[b])>>,
         aw_sub         |-> <<SliceLen(batch.aw_sub[1], char_list),
                              SliceLen(batch.aw_sub[2], batch.x_lens[b])>>,
         aw_dec_out_sub |-> <<SliceLen(batch.aw_dec_out_sub[1], word_list),
                              SliceLen(batch.aw_dec_out_sub[2], char_list)>>,
         label_list     |-> word_list,
         label_list_sub |-> char_list,
         x_len          |-> batch.x_lens[b],
         gate_ticks     |-> batch.gate_weights]

\* no batch fetched, nothing rendered
NoBatch == [batch |-> [x_lens |-> <<>>], size |-> 0, is_new_epoch |-> FALSE]

NoRender == [label_list |-> -1]

\* the training script is not running
TrainIdle ==
    /\ params = None
    /\ pc = "idle"
    /\ train_data = None
    /\ step = -1
    /\ is_new_epoch = FALSE
    /\ model = None
    /\ best_model = LiveModel
    /\ snapshot = NoSnapshot
    /\ num_copies = 0
    /\ ler_dev_best = One
    /\ not_improved_epoch = 0
    /\ metric_dev_epoch = -1
    /\ learning_rate = None
    /\ lr_controller = None
    /\ loss_val_train = 0
    /\ loss_val_train_tmp = 0
    /\ csv_loss_train = None
    /\ dev_batches = 0
    /\ files = None
    /\ test_eval = NoTestEval
    /\ hist = None

PlotInit ==
    /\ viz_pc = "start"
    /\ viz_args \in [model_type         : ModelTypes,
                     max_decode_len     : {MaxDecodeLen},
                     max_decode_len_sub : {MaxDecodeLen + 1},
                     eval_batch_size    : EvalBatchSizes,
                     has_gate           : BOOLEAN,
                     num_batches        : VizBatchCounts,
                     save_path          : SavePaths,
                     isdir              : BOOLEAN]
    /\ viz_data = [offset |-> 0]
    /\ viz_batch = NoBatch
    /\ viz_b = 0
    /\ rendered = NoRender
    /\ viz_out = [cleaned |-> FALSE, inferences |-> 0, att |-> 0,
                  drawn |-> 0, word2char |-> 0, gate |-> 0, error |-> None]

\* Clean directory: `if save_path is not None and isdir(save_path)` the
\* directory is removed and made again; then idx2word, idx2char
CleanDirectory ==
    /\ viz_pc = "start"
    /\ viz_out' = [viz_out EXCEPT
                     !.cleaned = (viz_args.save_path # NoPath
                                    /\ viz_args.isdir)]
    /\ viz_pc' = "fetch"
    /\ UNCHANGED <<viz_args, viz_data, viz_batch, viz_b, rendered>>
    /\ UNCHANGED trainVars

\* for batch, is_new_epoch in dataset: model.attention_weights(...)
PlotBatch ==
    /\ viz_pc = "fetch"
    /\ viz_args.model_type = "nested_attention"
    /\ \E B \in 1..viz_args.eval_batch_size :
         \E batch \in BatchesOfSize(B) :
            viz_batch' = [batch |-> batch, size |-> B,
                          is_new_epoch |->
                              (viz_data.offset + 1 = viz_args.num_batches)]
    /\ viz_data' = [viz_data EXCEPT !.offset = @ + 1]
    /\ viz_out' = [viz_out EXCEPT !.inferences = @ + 1]
    /\ viz_b' = 0
    /\ viz_pc' = "utt"
    /\ UNCHANGED <<viz_args, rendered>>
    /\ UNCHANGED trainVars

\* variant: the inference call comes before the test of the model type
PlotUnsupportedAfterInference ==
    /\ viz_pc = "fetch"
    /\ viz_args.model_type # "nested_attention"
    /\ viz_data' = [viz_data EXCEPT !.offset = @ + 1]
    /\ viz_out' = [viz_out EXCEPT !.inferences = @ + 1,
                                  !.error = "ValueError"]
    /\ viz_pc' = "error"
    /\ UNCHANGED <<viz_args, viz_batch, viz_b, rendered>>
    /\ UNCHANGED trainVars

\* else: raise ValueError
PlotUnsupported ==
    /\ viz_pc = "fetch"
    /\ viz_args.model_type # "nested_attention"
    /\ viz_data' = [viz_data EXCEPT !.offset = @ + 1]
    /\ viz_out' = [viz_out EXCEPT !.error = "ValueError"]
    /\ viz_pc' = "error"
    /\ UNCHANGED <<viz_args, viz_batch, viz_b, rendered>>
    /\ UNCHANGED trainVars

\* the gate plot of an utterance is saved with os.path's join(save_path,
\* ...), which raises TypeError for save_path None
GateJoinFails ==
    /\ viz_batch.batch.gate_weights # <<>>
    /\ viz_args.save_path = NoPath

\* for b in range(len(batch['xs'])): the call of
\* plot_hierarchical_attention_weights (counted by att), the word2char
\* heatmap (drawn, and written when there is a save path) and, when there
\* are gate weights, the gate image
PlotUtterance ==
    /\ viz_pc = "utt"
    /\ viz_b < viz_batch.size
    /\ ~GateJoinFails
    /\ rendered' = RenderUtterance(viz_batch.batch, viz_b + 1)
    /\ LET w2c == plot_word2char_attention_weights(
                      mkdir_join(viz_args.save_path, "speaker",
                                 "_word2char.png")) IN
         viz_out' = [viz_out EXCEPT
                       !.att = @ + 1,
                       !.drawn = @ + w2c.drawn,
                       !.word2char = @ + w2c.written,
                       !.gate = IF viz_batch.batch.gate_weights # <<>>
                                THEN @ + 1 ELSE @]
    /\ viz_b' = viz_b + 1
    /\ UNCHANGED <<viz_pc, viz_args, viz_data, viz_batch>>
    /\ UNCHANGED trainVars

\* the same iteration with gate weights and save_path None: both plotting
\* calls are made, nothing is written, and join(save_path, ...) of line 171
\* raises TypeError out of plot()
PlotGateTypeError ==
    /\ viz_pc = "utt"
    /\ viz_b < viz_batch.size
    /\ GateJoinFails
    /\ rendered' = RenderUtterance(viz_batch.batch, viz_b + 1)
    /\ LET w2c == plot_word2char_attention_weights(
                      mkdir_join(viz_args.save_path, "speaker",
                                 "_word2char.png")) IN
         viz_out' = [viz_out EXCEPT
                       !.att = @ + 1,
                       !.drawn = @ + w2c.drawn,
                       !.word2char = @ + w2c.written,
                       !.error = "TypeError"]
    /\ viz_pc' = "error"
    /\ UNCHANGED <<viz_args, viz_data, viz_batch, viz_b>>
    /\ UNCHANGED trainVars

\* if is_new_epoch: break
PlotBreak ==
    /\ viz_pc = "utt"
    /\ viz_b = viz_batch.size
    /\ viz_batch.is_new_epoch
    /\ viz_pc' = "done"
    /\ UNCHANGED <<viz_args, viz_data, viz_batch, viz_b, rendered, viz_out>>
    /\ UNCHANGED trainVars

\* next batch: the loop variables of this iteration are dead from here on
PlotNextBatch ==
    /\ viz_pc = "utt"
    /\ viz_b = viz_batch.size
    /\ ~viz_batch.is_new_epoch
    /\ viz_pc' = "fetch"
    /\ viz_batch' = NoBatch
    /\ rendered' = NoRender
    /\ UNCHANGED <<viz_args, viz_data, viz_b, viz_out>>
    /\ UNCHANGED trainVars

PlotNext ==
    \/ CleanDirectory
    \/ PlotBatch
    \/ PlotUnsupported
    \/ PlotUtterance
    \/ PlotGateTypeError
    \/ PlotBreak
    \/ PlotNextBatch

VizInit == PlotInit /\ TrainIdle

SpecPlot == VizInit /\ [][PlotNext]_vars

(* ======================= properties of the training loop =============== *)

\* a step of the run is the dev evaluation of lines 214-253
IsDevEvalStep == pc = "eval" /\ pc' = "early_stop"

\* a step leaves the batch loop
LeavesLoop == pc \in {"loop", "print", "epoch", "checkpoint", "eval",
                      "early_stop"} /\ pc' = "test"

\* C1: early stopping triggers exactly when the non-improvement counter
\* reaches the patience value.  A dev evaluation sets the counter to 0 on a
\* strictly lower metric and adds 1 otherwise; the check that follows
\* leaves the loop if and only if the counter equals
\* not_improved_patient_epoch; the only other way out of the loop is the
\* exhaustion of the train dataset.
EarlyStopExactly ==
    [][ /\ IsDevEvalStep =>
              not_improved_epoch' =
                  IF metric_dev_epoch' < ler_dev_best
                  THEN 0 ELSE not_improved_epoch + 1
        /\ pc = "early_stop" =>
              ((pc' = "test") <=>
                  (not_improved_epoch = params.not_improved_patient_epoch))
        /\ LeavesLoop =>
              \/ pc = "early_stop"
              \/ pc = "loop" /\ train_data.epoch >= train_data.max_epoch
      ]_vars

\* C1 witness: the loop was left by early stopping after two evaluations
\* without improvement
EarlyStopWitness ==
    /\ pc = "test"
    /\ hist.exit = "early_stop"
    /\ params.not_improved_patient_epoch = 2
    /\ not_improved_epoch = 2

\* C2: the best model changes only on improvement.  ler_dev_best never
\* increases, best_model is replaced exactly by a dev evaluation whose
\* metric is strictly lower than ler_dev_best, and ler_dev_best is the
\* minimum of 1 and the dev metrics seen so far.
BestMonotone ==
    [][ /\ ler_dev_best' <= ler_dev_best
        /\ (best_model' # best_model) <=>
              (IsDevEvalStep /\ metric_dev_epoch' < ler_dev_best)
        /\ ler_dev_best' = SetMin({One} \cup hist'.dev_seen)
      ]_vars

\* C2 witness: an evaluation returned exactly the best value and left the
\* best model of an earlier improvement in place
BestMonotoneWitness ==
    /\ pc = "early_stop"
    /\ metric_dev_epoch = ler_dev_best
    /\ ler_dev_best < One
    /\ not_improved_epoch = 1
    /\ best_model = 1

\* C3 as stated: when the final test-set evaluation starts, best_model is
\* an object distinct from the live model.
BestModelDistinctAtTest == pc = "test" => best_model # LiveModel

\* C3, amended: best_model is the live model itself until a dev evaluation
\* improves on the initial best value 1; from then on it is a deep copy,
\* a fresh object at every improvement, whose parameters are those of the
\* live model at the time of the copy and are not changed by any later step.
BestModelSnapshot ==
    [][ /\ (best_model = LiveModel) <=> (ler_dev_best = One)
        /\ (best_model' = LiveModel) <=> (ler_dev_best' = One)
        /\ best_model' # best_model =>
              /\ best_model' \notin {LiveModel, best_model}
              /\ snapshot'.updates = model'.updates
        /\ (best_model # LiveModel /\ best_model' = best_model) =>
              snapshot'.updates = snapshot.updates
      ]_vars

\* C3 witness: the test evaluation starts on a snapshot that is older than
\* the live model
BestModelSnapshotWitness ==
    /\ pc = "test"
    /\ best_model # LiveModel
    /\ snapshot.updates < model.updates

(* ==================== properties of the learning rate ================== *)

\* C4: no decay before decay_start_epoch.  While the epoch counter of the
\* train dataset is below decay_start_epoch the learning rate of the loop
\* is the configured initial learning rate, whatever the dev metrics were.
NoDecayBeforeStart ==
    train_data.epoch < params.decay_start_epoch =>
        RatEq(learning_rate, params.learning_rate)

\* C4 witness: before decay_start_epoch the controller has been called
\* decay_patient_epoch times or more and no evaluation ever improved
NoDecayBeforeStartWitness ==
    /\ pc = "loop"
    /\ train_data.epoch < params.decay_start_epoch
    /\ Len(hist.lr_calls) >= params.decay_patient_epoch
    /\ \A i \in 1..Len(hist.dev_evals) : ~hist.dev_evals[i].improved

\* the i-th call of decay_lr came at or after decay_start_epoch with a
\* value that did not improve on the best value seen before
NonImprovingCall(h, i) ==
    /\ h.lr_calls[i].epoch >= params.decay_start_epoch
    /\ h.dev_evals[i].epoch = h.lr_calls[i].epoch
    /\ ~h.dev_evals[i].improved

\* the i-th call completes decay_patient_epoch consecutive non-improving
\* calls, none of which but the last decayed
CompletesPatience(h, i) ==
    LET first == i - params.decay_patient_epoch + 1
    IN  /\ first >= 1
        /\ \A k \in first..i : NonImprovingCall(h, k)
        /\ \A k \in first..(i - 1) : ~h.lr_calls[k].decayed

\* C5: once past decay_start_epoch the controller decays by exactly
\* decay_rate after decay_patient_epoch consecutive non-improving
\* evaluations, then starts counting again.  The call of decay_lr multiplies
\* the learning rate by decay_rate, once, if it completes
\* decay_patient_epoch consecutive non-improving values since the last
\* decay, and returns it unchanged otherwise; no other step changes the
\* learning rate.
DecayExactly ==
    [][ IF pc = "early_stop" /\ pc' = "loop"
        THEN /\ Len(hist'.lr_calls) = Len(hist.lr_calls) + 1
             /\ IF CompletesPatience(hist', Len(hist'.lr_calls))
                THEN learning_rate' = RatMul(learning_rate, params.decay_rate)
                ELSE learning_rate' = learning_rate
        ELSE learning_rate' = learning_rate
      ]_vars

\* C5 witness: with a patience of 2 the first non-improving value does not
\* decay, the second decays, and the third, the first after the decay, does
\* not: the counter started again
DecayExactlyWitness ==
    /\ pc = "loop"
    /\ params.decay_patient_epoch = 2
    /\ params.decay_start_epoch = 1
    /\ Len(hist.lr_calls) = 3
    /\ \A i \in 1..3 : ~hist.dev_evals[i].improved
    /\ ~hist.lr_calls[1].decayed
    /\ hist.lr_calls[2].decayed
    /\ ~hist.lr_calls[3].decayed
    /\ lr_controller.not_improved_epoch = 1
    /\ learning_rate = RatMul(params.learning_rate, params.decay_rate)

(* ===================== properties of the visualization ================= *)

\* the utterance (1-based) whose matrices were passed to rendering last: the
\* one the TypeError interrupted is not counted by viz_b
LastRendered == IF viz_pc = "error" THEN viz_b + 1 ELSE viz_b

\* C6: every attention matrix passed to rendering is cut to the decoded and
\* input lengths.  For the utterance b just rendered the word-to-acoustic
\* matrix is len(word_list) x x_lens[b], the character-to-acoustic matrix
\* len(char_list) x x_lens[b] and the word-to-character matrix
\* len(word_list) x len(char_list), the label lists being the decoded
\* hypotheses of b.
TruncatedToLengths ==
    /\ (viz_pc \in {"utt", "done"}) => (rendered # NoRender <=> viz_b > 0)
    /\ (viz_pc = "error") =>
          (rendered # NoRender <=> viz_out.error = "TypeError")
    /\ rendered # NoRender =>
        LET batch == viz_batch.batch
            b == LastRendered
            words == batch.best_hyps[b]
            chars == batch.best_hyps_sub[b]
            frames == batch.x_lens[b]
        IN  /\ rendered.label_list = words
            /\ rendered.label_list_sub = chars
            /\ rendered.aw = <<words, frames>>
            /\ rendered.aw_sub = <<chars, frames>>
            /\ rendered.aw_dec_out_sub = <<words, chars>>

\* C6 witness: an utterance decoded up to max_decode_len and
\* max_decode_len_sub was rendered, and so was (in the state reached) one
\* whose matrices were cut on both axes
TruncatedWitness ==
    /\ viz_pc = "utt"
    /\ viz_b = 2
    /\ viz_batch.batch.best_hyps[1] = viz_args.max_decode_len
    /\ viz_batch.batch.best_hyps_sub[1] = viz_args.max_decode_len_sub
    /\ rendered.aw[1] < viz_batch.batch.aw[1]
    /\ rendered.aw[2] < viz_batch.batch.aw[2]
    /\ rendered.aw_sub[1] < viz_batch.batch.aw_sub[1]
    /\ rendered.aw[1] > 0

(* ================= properties of the training loop, continued ========== *)

\* C7: the training driver iterates until the dataset is exhausted or early
\* stopping fires and then finishes.  Every run leaves the batch loop; on
\* both exits the test-set evaluation runs next, on best_model, and the
\* sentinel file is written only after it.
TrainingCompletes ==
    /\ <>(pc = "done")
    /\ [](hist.exit # None => pc \in {"test", "complete", "done"})
    /\ [](pc \in {"complete", "done"} =>
            /\ hist.exit \in {"exhausted", "early_stop"}
            /\ test_eval.done
            /\ test_eval.model_id = best_model)
    /\ [](files.complete <=> pc = "done")

\* C7 witness: a run that stopped early has written the sentinel file
TrainingCompletesWitness ==
    /\ pc = "done"
    /\ files.complete
    /\ hist.exit = "early_stop"
    /\ test_eval.done

\* C8: a checkpoint is created per epoch.  At every epoch boundary the loss
\* plot is persisted, then the checkpoint tagged with the epoch number is
\* saved, whatever eval_start_epoch is, before the dev evaluation and the
\* early-stopping check of that epoch.
CheckpointPerEpoch ==
    LET saved == Len(files.checkpoints)
    IN  /\ \A i \in 1..saved : files.checkpoints[i] = i
        /\ hist.boundaries = train_data.epoch
        /\ pc \in {"print", "epoch"} =>
              /\ saved = hist.boundaries - (IF is_new_epoch THEN 1 ELSE 0)
              /\ files.plots = saved
        /\ pc = "checkpoint" =>
              /\ saved = hist.boundaries - 1
              /\ files.plots = saved + 1
        /\ pc \in {"loop", "eval", "early_stop", "test", "complete", "done"} =>
              /\ saved = hist.boundaries
              /\ files.plots = saved
        /\ pc = "eval" =>
              \A j \in 1..Len(hist.dev_evals) :
                  hist.dev_evals[j].epoch < train_data.epoch
        /\ hist.exit = "early_stop" =>
              /\ saved >= 1
              /\ files.checkpoints[saved] = train_data.epoch

\* C8 witness: early stopping fired at the second epoch, the first epoch
\* having been before eval_start_epoch; both have their checkpoint
CheckpointWitness ==
    /\ pc = "test"
    /\ hist.exit = "early_stop"
    /\ params.eval_start_epoch = 2
    /\ files.checkpoints = <<1, 2>>

\* after the iterations seen so far, the dev evaluations run are those of
\* the epochs eval_start_epoch, ..., train_data.epoch, one each, by the
\* evaluator of the label type
EvalsUpTo(last) ==
    /\ Len(hist.dev_evals) =
          IF last >= params.eval_start_epoch
          THEN last - params.eval_start_epoch + 1 ELSE 0
    /\ \A i \in 1..Len(hist.dev_evals) :
          /\ hist.dev_evals[i].epoch = params.eval_start_epoch + i - 1
          /\ hist.dev_evals[i].evaluator =
                IF params.label_type = "character" THEN "cer" ELSE "wer"

\* C9: the dev evaluation and what depends on it run only from
\* eval_start_epoch on.  A step taken before that epoch changes none of
\* ler_dev_best, not_improved_epoch, best_model, learning_rate and the
\* controller, calls neither the evaluation nor the controller and is no
\* early stop; from then on each epoch boundary has exactly one evaluation.
EvalOnlyPastStart ==
    [][ /\ train_data.epoch < params.eval_start_epoch =>
              /\ UNCHANGED <<ler_dev_best, not_improved_epoch, best_model,
                             learning_rate, lr_controller>>
              /\ hist'.dev_evals = hist.dev_evals
              /\ hist'.lr_calls = hist.lr_calls
              /\ hist'.exit # "early_stop"
        /\ pc' \in {"loop", "early_stop", "test", "complete", "done"} =>
              EvalsUpTo(train_data.epoch)'
      ]_vars

\* C9 witness: the first epoch boundary was before eval_start_epoch and was
\* not evaluated, the second was
EvalOnlyPastStartWitness ==
    /\ pc = "early_stop"
    /\ params.eval_start_epoch = 2
    /\ train_data.epoch = 2
    /\ Len(hist.dev_evals) = 1
    /\ Len(files.checkpoints) = 2

\* C10: every print_step steps the loop evaluates one dev batch, logs and
\* resets its accumulator.  At a step with (step + 1) % print_step = 0 the
\* training loss logged is the sum of the losses of the last print_step
\* optimization steps over print_step, and the accumulator is 0 afterwards;
\* at any other step no dev batch is taken and the accumulator only grows
\* by the loss of the step; an epoch boundary does not touch it.
PrintStepAccumulates ==
    [][ /\ (pc = "loop" /\ pc' = "print") =>
              /\ loss_val_train' = loss_val_train + loss_val_train_tmp'
              /\ UNCHANGED <<dev_batches, csv_loss_train>>
        /\ (pc = "print" /\ (step + 1) % params.print_step = 0) =>
              /\ Len(hist.recent) = params.print_step
              /\ csv_loss_train'.last =
                    <<SeqSum(hist.recent), params.print_step>>
              /\ csv_loss_train'.len = csv_loss_train.len + 1
              /\ loss_val_train' = 0
              /\ dev_batches' = dev_batches + 1
        /\ (pc = "print" /\ (step + 1) % params.print_step # 0) =>
              UNCHANGED <<loss_val_train, dev_batches, csv_loss_train>>
        /\ pc \notin {"loop", "print"} =>
              UNCHANGED <<loss_val_train, dev_batches, csv_loss_train>>
        /\ (pc = "loop" /\ (step + 1) % params.print_step = 0) =>
              loss_val_train = 0
      ]_vars

\* C10 witness: with print_step 2 and one batch per epoch a log entry has
\* been written whose two steps (losses 1 and 2) lie in different epochs
PrintStepWitness ==
    /\ pc = "epoch"
    /\ params.print_step = 2
    /\ train_data.num_batches = 1
    /\ train_data.epoch = 2
    /\ csv_loss_train.len = 1
    /\ csv_loss_train.last = <<3, 2>>
    /\ loss_val_train = 0

(* ================ properties of the visualization, continued =========== *)

\* plot() has made no inference call and written no image
NothingPlotted ==
    /\ viz_out.inferences = 0
    /\ viz_out.att = 0
    /\ viz_out.drawn = 0
    /\ viz_out.word2char = 0
    /\ viz_out.gate = 0
    /\ rendered = NoRender

\* the ValueError of plot() is raised exactly for an unsupported model type,
\* on the first batch, with nothing plotted
ErrorOnlyUnsupported ==
    /\ (viz_out.error # None) <=> (viz_pc = "error")
    /\ viz_out.error = "ValueError" =>
          /\ viz_args.model_type # "nested_attention"
          /\ viz_data.offset = 1
          /\ NothingPlotted
    /\ viz_args.model_type # "nested_attention" =>
          /\ viz_pc \in {"start", "fetch", "error"}
          /\ viz_data.offset <= 1
          /\ NothingPlotted
          /\ viz_out.error \in {None, "ValueError"}
    /\ viz_args.model_type = "nested_attention" =>
          viz_out.error # "ValueError"

\* C11: an unsupported model type raises a generic error and aborts.  With
\* a model_type other than 'nested_attention' the ValueError is raised on
\* the first batch, before any inference call and before any image is
\* rendered or written, and nothing runs after it; with 'nested_attention'
\* it is never raised.
UnsupportedAborts ==
    [][ /\ ErrorOnlyUnsupported
        /\ ErrorOnlyUnsupported'
        /\ viz_pc # "error"
        /\ (viz_args.model_type # "nested_attention" /\ viz_pc = "fetch") =>
              viz_pc' = "error"
      ]_vars

\* C11 witness: the error was raised for a dataset that had a second batch
UnsupportedAbortsWitness ==
    /\ viz_pc = "error"
    /\ viz_out.error = "ValueError"
    /\ viz_args.model_type = "attention"
    /\ viz_args.num_batches = 2
    /\ viz_data.offset = 1

(* ================= properties of the training, modes ================== *)

\* C12: the mode of the model is the one its operation requires.  Every
\* train_step runs with the live model in training mode, every dev-batch
\* loss and every dev evaluation runs with it in evaluation mode, and the
\* model evaluated on the test sets (the deep copy or the live model) is in
\* evaluation mode, after exhaustion and after early stopping alike.
ModeAsRequired ==
    [][ /\ (pc = "loop" /\ pc' = "print") => model.mode = "train"
        /\ (pc = "print" /\ dev_batches' # dev_batches) =>
              hist'.dev_loss_mode = "eval"
        /\ IsDevEvalStep =>
              /\ model'.mode = "eval"
              /\ hist'.dev_evals[Len(hist'.dev_evals)].mode = "eval"
              /\ best_model' # LiveModel => snapshot'.mode = "eval"
        /\ (pc = "test" /\ pc' = "complete") =>
              /\ test_eval'.mode = "eval"
              /\ hist.exit \in {"exhausted", "early_stop"}
      ]_vars

\* C12 witness: after an early stop the deep copy, older than the live
\* model, was evaluated on the test sets; a dev-batch loss had been computed
\* and training had resumed after an earlier dev evaluation
ModeAsRequiredWitness ==
    /\ pc = "complete"
    /\ hist.exit = "early_stop"
    /\ best_model # LiveModel
    /\ test_eval.mode = "eval"
    /\ hist.dev_loss_mode = "eval"
    /\ Len(hist.dev_evals) >= 2
    /\ snapshot.updates < model.updates

\* C12 witness of the other exit: the dataset was exhausted and the test
\* evaluation ran on the live model, never copied
ModeLiveModelWitness ==
    /\ pc = "complete"
    /\ hist.exit = "exhausted"
    /\ best_model = LiveModel
    /\ test_eval.mode = "eval"
    /\ model.updates > 0

=============================================================================
